---- MODULE Spec2Model ----
(***************************************************************************)
(* Model of the monthly cohort simulation and of the annual aggregation of *)
(* src/excelH.py (the financial model of THE ARCHITECT ECOSYSTEM).         *)
(*                                                                         *)
(* The script is a straight-line program: it fills df_monthly one row per  *)
(* month (lines 302-489), then df_annual one column per fiscal year (lines *)
(* 518-696).  One action models one iteration of each loop (Spec).  The    *)
(* aggregation of one year (lines 520-580), its CAC payback (lines         *)
(* 595-607) and its weighted churn / expansion / NRR block (lines 621-657, *)
(* 682-696) are also modelled on their own, applied to monthly tables with *)
(* whole start populations (MetricsSpec).                                  *)
(*                                                                         *)
(* Numbers.  The script computes in IEEE doubles; the model computes the   *)
(* same expressions exactly, in fixed point:                               *)
(*   - a population (users or accounts) x is stored as x * POP;            *)
(*   - a money amount e is stored as e * MONEY;                            *)
(*   - churn and conversion rates are stored per mille (r * RATE_DEN);     *)
(*   - growth, expansion and cost rates are stored per cent (r * PCT).     *)
(* With integer seeds, the rates of RateChoices and the prices below every *)
(* intermediate value of the script is an exact multiple of these units,   *)
(* so no division of the model truncates.                                  *)
(***************************************************************************)
EXTENDS Integers, Sequences, FiniteSets, TLC

\* ------------------------------------------------------------------------
\* Units of the fixed-point representation
\* ------------------------------------------------------------------------
POP      == 100 * 1000      \* units per user / account
RATE_DEN == 10 * 100        \* churn / conversion rates are per mille
PCT      == 10 * 10         \* growth / expansion / cost rates are per cent
MONEY    == 24 * 100        \* units per euro
COST_STEP == 1 + 4          \* cost rates are multiples of 5 per cent

\* ------------------------------------------------------------------------
\* Horizon (lines 104-107)
\* ------------------------------------------------------------------------
N_YEARS == 3
N_MONTHS == N_YEARS * 12
model_months == 1..N_MONTHS
FirstYear == 2025
model_years(m) == FirstYear + ((m - 1) \div 12)
Years == { model_years(m) : m \in model_months }

\* ------------------------------------------------------------------------
\* numpy rounding: round half to even (np.float64.round)
\* ------------------------------------------------------------------------
\* x.round(): x in POP units, result a multiple of `unit`
RoundTo(x, unit) ==
    LET q == x \div unit
        r == x % unit
    IN  IF 2 * r < unit THEN q * unit
        ELSE IF 2 * r > unit THEN (q + 1) * unit
        ELSE IF q % 2 = 0 THEN q * unit ELSE (q + 1) * unit

\* .round() : to the nearest whole number
Round0(x) == RoundTo(x, POP)
\* .round(2) : to two decimals
Round2(x) == RoundTo(x, POP \div 100)

\* x * rate mistaken for what the rate leaves: x * (1 - rate)
TimesRetained(x, rate) == (x \div RATE_DEN) * (RATE_DEN - rate)

\* x * rate for a per-mille rate.  Every x the script multiplies by a rate is
\* a start-of-month cell, a whole number or a number of two decimals, hence a
\* multiple of POP / 100 = RATE_DEN units: dividing first is exact and keeps
\* the product small.
Times(x, rate) == (x \div RATE_DEN) * rate

\* x * (1 + g) for a per-cent rate g and a whole number x
Grow(x, g) == (x \div PCT) * (PCT + g)

\* ------------------------------------------------------------------------
\* Configuration (lines 109-232): the inputs of the run.
\* ------------------------------------------------------------------------
MaxFreeSeed == 10       \* initial_free_users
MaxProSeed  == 5        \* initial_pro_users
MaxTeamSeed == 5        \* initial_team_users
MaxNewFree  == 4        \* new_free_users_month_1

Tiers     == {"Free", "Pro", "Lifetime", "Team", "Enterprise"}
PaidTiers == {"Pro", "Team", "Enterprise", "Lifetime"}
CostCats  == {"Engineering", "Product & Design", "Marketing & Community",
              "Customer Success", "Infrastructure", "G&A"}

\* churn per tier and the two paid-tier upgrade rates, per mille
ShippedLikeRates ==
    [churn |-> [Free |-> 200, Pro |-> 55, Lifetime |-> 10, Team |-> 38,
                Enterprise |-> 15],
     indiv_to_team |-> 4, team_to_ent |-> 2]
\* every rate still in [0,1), but churn + outbound conversion above 1
SteepRates ==
    [churn |-> [Free |-> 600, Pro |-> 600, Lifetime |-> 600, Team |-> 600,
                Enterprise |-> 600],
     indiv_to_team |-> 500, team_to_ent |-> 500]
RateChoices == {ShippedLikeRates, SteepRates}

\* (free_to_pro, free_to_lifetime), per mille
FreeConvChoices == { <<0, 0>>, <<50, 100>>, <<500, 100>> }

\* seeds of the paid tiers: none, individual users only, Team users only, or
\* pro/lifetime/team/enterprise users
PaidSeedChoices ==
    { [pro |-> 0, lifetime |-> 0, team |-> 0, enterprise |-> 0],
      [pro |-> MaxProSeed, lifetime |-> 1, team |-> 0, enterprise |-> 0],
      [pro |-> 0, lifetime |-> 0, team |-> MaxTeamSeed, enterprise |-> 0],
      [pro |-> MaxProSeed, lifetime |-> 1, team |-> MaxTeamSeed,
       enterprise |-> 1] }

\* monthly_prices (Pro; Team by year) and monthly_expansion_rate by year, per
\* cent; the shipped 0.5 % .. 2.5 % are replaced by whole tens
ShippedLikePrices == [Pro |-> 39, Team |-> <<29, 29, 35>>]
ShippedLikeExpansion ==
    [Pro |-> <<0, 0, 0>>, Team |-> <<10, 10, 20>>,
     Enterprise |-> <<10, 20, 20>>, Lifetime |-> <<0, 0, 0>>]

Configs ==
    { [ new_free_users_month_1 |-> nf,
        \* TRUE: the seed is a numpy scalar; FALSE: a Python int, as shipped
        \* (line 123)
        seed_is_numpy          |-> np,
        initial_free_users     |-> fr,
        initial_pro_users      |-> ps.pro,
        initial_lifetime_users |-> ps.lifetime,
        initial_team_users     |-> ps.team,
        initial_enterprise_users |-> ps.enterprise,
        growth                 |-> 10,
        \* monthly_new_user_growth_rate has the entries 1..growth_last
        growth_last            |-> gl,
        free_to_pro            |-> fc[1],
        free_to_lifetime       |-> fc[2],
        rates                  |-> rt,
        prices                 |-> ShippedLikePrices,
        expansion              |-> ShippedLikeExpansion ] :
        nf \in {0, MaxNewFree}, np \in BOOLEAN, fr \in {0, MaxFreeSeed},
        ps \in PaidSeedChoices, fc \in FreeConvChoices, rt \in RateChoices,
        gl \in {12, N_MONTHS} }

\* no churn and no conversion between paid tiers
NoRates ==
    [churn |-> [Free |-> 0, Pro |-> 0, Lifetime |-> 0, Team |-> 0,
                Enterprise |-> 0],
     indiv_to_team |-> 0, team_to_ent |-> 0]
\* churn 0.10 in every tier, no conversion between paid tiers
TenthChurnRates ==
    [churn |-> [Free |-> 100, Pro |-> 100, Lifetime |-> 100, Team |-> 100,
                Enterprise |-> 100],
     indiv_to_team |-> 0, team_to_ent |-> 0]

\* One paying tier (Pro) at 100 per month, no churn, no expansion, no
\* conversion out; 100 Free users of whom a tenth converts each month and who
\* are replaced by 10 new ones: 10 customers enter Pro every month.
SteadyIntakeConfig ==
    [ new_free_users_month_1 |-> 10, seed_is_numpy |-> TRUE,
      initial_free_users |-> 100, initial_pro_users |-> 0,
      initial_lifetime_users |-> 0, initial_team_users |-> 0,
      initial_enterprise_users |-> 0,
      growth |-> 0, growth_last |-> N_MONTHS,
      free_to_pro |-> 100, free_to_lifetime |-> 0,
      rates |-> NoRates,
      prices |-> [Pro |-> 100, Team |-> <<29, 29, 35>>],
      expansion |-> ShippedLikeExpansion ]

\* One tier (Pro) of 100 users with churn 0.10, no acquisition, no conversion
PureChurnConfig ==
    [ new_free_users_month_1 |-> 0, seed_is_numpy |-> TRUE,
      initial_free_users |-> 0, initial_pro_users |-> 100,
      initial_lifetime_users |-> 0, initial_team_users |-> 0,
      initial_enterprise_users |-> 0,
      growth |-> 0, growth_last |-> N_MONTHS,
      free_to_pro |-> 0, free_to_lifetime |-> 0,
      rates |-> TenthChurnRates,
      prices |-> ShippedLikePrices,
      expansion |-> ShippedLikeExpansion ]

\* One Team account of 8 users that nobody leaves or joins, at a constant
\* price and a constant expansion rate of 10 % for the first two years
RetainedTeamConfig ==
    [ new_free_users_month_1 |-> 0, seed_is_numpy |-> TRUE,
      initial_free_users |-> 0, initial_pro_users |-> 0,
      initial_lifetime_users |-> 0, initial_team_users |-> 8,
      initial_enterprise_users |-> 0,
      growth |-> 0, growth_last |-> N_MONTHS,
      free_to_pro |-> 0, free_to_lifetime |-> 0,
      rates |-> NoRates,
      prices |-> ShippedLikePrices,
      expansion |-> ShippedLikeExpansion ]

ScenarioConfigs == {SteadyIntakeConfig, PureChurnConfig, RetainedTeamConfig}

VARIABLES
    cfg,          \* the configuration of the run (never changes)
    pc,           \* "monthly", "annual", "done" or "crashed"
    err,          \* the exception that ended the run, or "none"
    m_next,       \* next month of the monthly loop
    y_next,       \* next fiscal year of the annual loop
    df_monthly,   \* month -> row of the monthly table
    df_annual,    \* year  -> column of the annual table
    locals        \* month -> the loop's local variables in that iteration

vars == <<cfg, pc, err, m_next, y_next, df_monthly, df_annual, locals>>

\* ------------------------------------------------------------------------
\* Rate, price and cost tables, by month (lines 124-232)
\* ------------------------------------------------------------------------
Band(m, y1, y2, y3) == IF m <= 12 THEN y1 ELSE IF m <= 24 THEN y2 ELSE y3

\* monthly_new_user_growth_rate.get(m, 0): a month without an entry reads 0
monthly_new_user_growth_rate(m) ==
    IF m \in 1..cfg.growth_last THEN cfg.growth ELSE 0
free_to_pro_monthly_rate(m) == cfg.free_to_pro
free_to_lifetime_monthly_rate(m) == cfg.free_to_lifetime
paid_individual_to_team_account_monthly_rate(m) == cfg.rates.indiv_to_team
team_account_to_enterprise_account_monthly_rate(m) == cfg.rates.team_to_ent
monthly_churn_rate(tier, m) == cfg.rates.churn[tier]
avg_users_per_team_account(m) == Band(m, 8, 10, 12)
avg_users_per_enterprise_account(m) == Band(m, 50, 80, 100)
\* per cent
monthly_expansion_rate(tier, m) ==
    Band(m, cfg.expansion[tier][1], cfg.expansion[tier][2],
         cfg.expansion[tier][3])
monthly_prices(tier, m) ==
    IF tier = "Pro" THEN cfg.prices.Pro
    ELSE Band(m, cfg.prices.Team[1], cfg.prices.Team[2], cfg.prices.Team[3])
annual_prices(m) == Band(m, 500, 550, 600)
one_time_license_price(m) == 50
\* per cent; the shipped percentages, moved to whole fives
cost_structure_pct(cat, m) ==
    CASE cat = "Engineering" -> Band(m, 45, 40, 30)
      [] cat = "Product & Design" -> Band(m, 20, 20, 15)
      [] cat = "Marketing & Community" -> Band(m, 30, 25, 20)
      [] cat = "Customer Success" -> Band(m, 15, 10, 10)
      [] cat = "Infrastructure" -> Band(m, 15, 10, 10)
      [] OTHER -> Band(m, 15, 10, 10)

\* ------------------------------------------------------------------------
\* The monthly table (lines 267-298)
\* ------------------------------------------------------------------------
\* cols_monthly, lines 267-283
cols_monthly ==
    { "Year", "Month",
      "New Free Users", "Active Free Users (Start)", "Active Free Users (End)",
      "Free Churn",
      "Converted to Pro", "Converted to Lifetime",
      "Converted to Team Accts (from Indiv Paid)",
      "Converted to Enterprise Accts (from Team Accts)",
      "Active Pro Users (Start)", "Active Pro Users (End)", "Pro Churn",
      "Pro Expansion Revenue",
      "Active Lifetime Users (Start)", "Active Lifetime Users (End)",
      "Lifetime Churn", "Lifetime Expansion Revenue",
      "Active Team Users (Start)", "Active Team Users (End)", "Team Churn",
      "Team Expansion Revenue",
      "Active Team Accounts (Start)", "Active Team Accounts (End)",
      "Team Acct Churn", "Team Acct Expansion Revenue",
      "Active Enterprise Users (Start)", "Active Enterprise Users (End)",
      "Enterprise Churn", "Enterprise Expansion Revenue",
      "Active Enterprise Accounts (Start)", "Active Enterprise Accounts (End)",
      "Enterprise Acct Churn", "Enterprise Acct Expansion Revenue",
      "Total Paid Users (End)",
      "Revenue - Pro Subscriptions", "Revenue - Team Subscriptions",
      "Revenue - Enterprise Subscriptions",
      "Revenue - One-time Licenses", "Revenue - Marketplace",
      "Total Recurring Revenue (MRR)", "Total Revenue (incl. One-time & MP)",
      "Cost - Engineering", "Cost - Product & Design",
      "Cost - Marketing & Community", "Cost - Customer Success",
      "Cost - Infrastructure", "Cost - G&A",
      "Total OpEx",
      "Gross Profit", "EBITDA" }

\* The rows of the model keep the cells the script writes; the eight
\* "... Expansion Revenue" columns are never written and stay 0.0.
\* pd.DataFrame(0.0, ...): every cell starts at 0.0
EmptyRow ==
    [ Year |-> 0, Month |-> 0, NewFreeUsers |-> 0,
      FreeStart |-> 0, FreeEnd |-> 0, FreeChurn |-> 0,
      ConvertedToPro |-> 0, ConvertedToLifetime |-> 0,
      ConvertedToTeamAccts |-> 0, ConvertedToEnterpriseAccts |-> 0,
      ProStart |-> 0, ProEnd |-> 0, ProChurn |-> 0,
      LifetimeStart |-> 0, LifetimeEnd |-> 0, LifetimeChurn |-> 0,
      TeamUsersStart |-> 0, TeamUsersEnd |-> 0, TeamChurn |-> 0,
      TeamAcctsStart |-> 0, TeamAcctsEnd |-> 0, TeamAcctChurn |-> 0,
      EntUsersStart |-> 0, EntUsersEnd |-> 0, EnterpriseChurn |-> 0,
      EntAcctsStart |-> 0, EntAcctsEnd |-> 0, EnterpriseAcctChurn |-> 0,
      TotalPaidUsersEnd |-> 0,
      RevenuePro |-> 0, RevenueTeam |-> 0, RevenueEnterprise |-> 0,
      RevenueOneTime |-> 0, RevenueMarketplace |-> 0,
      MRR |-> 0, TotalRevenue |-> 0,
      Cost |-> [c \in CostCats |-> 0], TotalOpEx |-> 0,
      GrossProfit |-> 0, EBITDA |-> 0 ]

\* lines 294-295: users / avg if avg > 0 else 0
UsersToAccounts(users, avg) == IF avg > 0 THEN (users * POP) \div avg ELSE 0

\* lines 287-298: the seeds of month 1
SeedRow(c) ==
    [ EmptyRow EXCEPT
        !.Year = model_years(1),
        !.Month = 1,
        !.FreeStart = c.initial_free_users * POP,
        !.ProStart = c.initial_pro_users * POP,
        !.LifetimeStart = c.initial_lifetime_users * POP,
        !.TeamUsersStart = c.initial_team_users * POP,
        !.EntUsersStart = c.initial_enterprise_users * POP,
        !.TeamAcctsStart =
            Round2(UsersToAccounts(c.initial_team_users,
                                   avg_users_per_team_account(1))),
        !.EntAcctsStart =
            Round2(UsersToAccounts(c.initial_enterprise_users,
                                   avg_users_per_enterprise_account(1))) ]

\* ------------------------------------------------------------------------
\* One month of the simulation (lines 302-489), piece by piece
\* ------------------------------------------------------------------------
\* Handoff with the Team accounts carried over from the start cell of the
\* month before instead of its end cell
HandoffStale(prev, cur) ==
    [ cur EXCEPT
        !.FreeStart = prev.FreeEnd,
        !.ProStart = prev.ProEnd,
        !.LifetimeStart = prev.LifetimeEnd,
        !.TeamUsersStart = prev.TeamUsersEnd,
        !.EntUsersStart = prev.EntUsersEnd,
        !.TeamAcctsStart = prev.TeamAcctsStart,
        !.EntAcctsStart = prev.EntAcctsEnd ]

\* lines 308-315: the start cells of month m are the end cells of month m-1
Handoff(prev, cur) ==
    [ cur EXCEPT
        !.FreeStart = prev.FreeEnd,
        !.ProStart = prev.ProEnd,
        !.LifetimeStart = prev.LifetimeEnd,
        !.TeamUsersStart = prev.TeamUsersEnd,
        !.EntUsersStart = prev.EntUsersEnd,
        !.TeamAcctsStart = prev.TeamAcctsEnd,
        !.EntAcctsStart = prev.EntAcctsEnd ]

\* lines 303-315
StartRow(m) ==
    LET dated == [ df_monthly[m] EXCEPT !.Year = model_years(m),
                                        !.Month = ((m - 1) % 12) + 1 ]
    IN  IF m > 1 THEN Handoff(df_monthly[m - 1], dated) ELSE dated

\* lines 318-322
NewFreeUsersThisMonth(m) ==
    IF m = 1 THEN cfg.new_free_users_month_1 * POP
    ELSE Grow(df_monthly[m - 1].NewFreeUsers,
              monthly_new_user_growth_rate(m - 1))

\* line 324: .round() exists on numpy scalars, not on a Python int
RoundRaises(m) == m = 1 /\ ~cfg.seed_is_numpy

\* each of the two tiers charged with the whole conversion
ShareOfWhole(conv, part, total) == IF total > 0 THEN conv ELSE 0

\* line 382 / 385: the share of converted_to_team_accts taken from one of the
\* two individual paid tiers, 0 when their total is not positive
ProportionalShare(conv, part, total) ==
    IF total > 0 THEN (conv * (part \div POP)) \div (total \div POP) ELSE 0

\* line 388: the Team account inflow is read back from the rounded column
TeamAcctsInflow(conv) == Round2(conv)

\* the Free base read from the month's end cell instead of its start cell
active_free_end(row) == row.FreeEnd

\* line 327: the base of the Free churn and of the conversions out of Free
active_free_start(row) == row.FreeStart

\* the base of the conversions to Team accounts taken after the month's
\* churn of the two individual paid tiers instead of before it
active_paid_individual_after_churn(row) ==
    (row.ProStart - (row.ProStart \div RATE_DEN) * cfg.rates.churn["Pro"])
    + (row.LifetimeStart
       - (row.LifetimeStart \div RATE_DEN) * cfg.rates.churn["Lifetime"])

\* line 369: the base of the conversions to Team accounts, the individual
\* paid users at the start of the month
active_paid_individual_start(row) == row.ProStart + row.LifetimeStart

\* lines 326-399: the unrounded quantities of the month, from its start cells
Locals(row, m, new_free) ==
    LET free_churn ==
            Times(active_free_start(row), monthly_churn_rate("Free", m))
        to_pro == Times(active_free_start(row), free_to_pro_monthly_rate(m))
        to_lifetime ==
            Times(active_free_start(row), free_to_lifetime_monthly_rate(m))
        pro_churn == Times(row.ProStart, monthly_churn_rate("Pro", m))
        lifetime_churn ==
            Times(row.LifetimeStart, monthly_churn_rate("Lifetime", m))
        team_acct_churn ==
            Times(row.TeamAcctsStart, monthly_churn_rate("Team", m))
        enterprise_acct_churn ==
            Times(row.EntAcctsStart, monthly_churn_rate("Enterprise", m))
        indiv == active_paid_individual_start(row)
        to_team == Times(indiv,
                         paid_individual_to_team_account_monthly_rate(m))
        to_ent == Times(row.TeamAcctsStart,
                        team_account_to_enterprise_account_monthly_rate(m))
        pro_out == ProportionalShare(to_team, row.ProStart, indiv)
        lifetime_out == ProportionalShare(to_team, row.LifetimeStart, indiv)
        team_in == TeamAcctsInflow(to_team)
        team_accts_end == row.TeamAcctsStart - team_acct_churn + team_in - to_ent
        ent_accts_end == row.EntAcctsStart - enterprise_acct_churn + to_ent
    IN  [ new_free_users_this_month |-> new_free,
          free_churn_this_month |-> free_churn,
          converted_to_pro |-> to_pro,
          converted_to_lifetime |-> to_lifetime,
          pro_churn |-> pro_churn,
          lifetime_churn |-> lifetime_churn,
          team_churn |->
              Times(row.TeamUsersStart, monthly_churn_rate("Team", m)),
          enterprise_churn |->
              Times(row.EntUsersStart, monthly_churn_rate("Enterprise", m)),
          team_acct_churn |-> team_acct_churn,
          enterprise_acct_churn |-> enterprise_acct_churn,
          active_paid_individual_start |-> indiv,
          converted_to_team_accts |-> to_team,
          converted_to_enterprise_accts |-> to_ent,
          pro_to_team |-> pro_out,
          lifetime_to_team |-> lifetime_out,
          team_accts_inflow |-> team_in,
          \* the end cells as first written, before lines 403-408 round them
          free_end |-> active_free_start(row) + new_free - free_churn
                       - to_pro - to_lifetime,
          pro_end |-> row.ProStart - pro_churn + to_pro - pro_out,
          lifetime_end |-> row.LifetimeStart - lifetime_churn + to_lifetime
                           - lifetime_out,
          team_accts_end |-> team_accts_end,
          ent_accts_end |-> ent_accts_end,
          team_users_end |-> team_accts_end * avg_users_per_team_account(m),
          ent_users_end |->
              ent_accts_end * avg_users_per_enterprise_account(m) ]

\* lines 329-408: the population cells of the month, rounded as reported
PopulationCells(row, m, l) ==
    [ row EXCEPT
        !.NewFreeUsers = Round0(l.new_free_users_this_month),
        !.FreeChurn = Round0(l.free_churn_this_month),
        !.ConvertedToPro = Round0(l.converted_to_pro),
        !.ConvertedToLifetime = Round0(l.converted_to_lifetime),
        !.ProChurn = Round0(l.pro_churn),
        !.LifetimeChurn = Round0(l.lifetime_churn),
        !.TeamChurn = Round0(l.team_churn),
        !.EnterpriseChurn = Round0(l.enterprise_churn),
        !.TeamAcctChurn = Round2(l.team_acct_churn),
        !.EnterpriseAcctChurn = Round2(l.enterprise_acct_churn),
        !.ConvertedToTeamAccts = Round2(l.converted_to_team_accts),
        !.ConvertedToEnterpriseAccts = Round2(l.converted_to_enterprise_accts),
        !.FreeEnd = Round0(l.free_end),
        !.ProEnd = Round0(l.pro_end),
        !.LifetimeEnd = Round0(l.lifetime_end),
        !.TeamUsersEnd = Round0(l.team_users_end),
        !.EntUsersEnd = Round0(l.ent_users_end),
        !.TeamAcctsEnd = Round2(l.team_accts_end),
        !.EntAcctsEnd = Round2(l.ent_accts_end),
        !.TotalPaidUsersEnd = Round0(l.pro_end) + Round0(l.lifetime_end)
                              + Round0(l.team_users_end)
                              + Round0(l.ent_users_end) ]

\* lines 429-439: (start + end) / 2 * price * (1 + expansion), the price given
\* per year (12 * the monthly price, or the annual price)
SubscriptionRevenue(start, end, price_per_year, expansion) ==
    ((start + end) \div POP) * price_per_year * (PCT + expansion)
        * (MONEY \div (2 * 12 * PCT))

\* the licence price read as a monthly price and billed for a year
OneTimeRevenuePerYear(converted, price) ==
    (converted \div POP) * price * 12 * MONEY

\* line 462
OneTimeRevenue(converted, price) == (converted \div POP) * price * MONEY

\* the cost rate read as a per-mille rate
CostOfPerMille(revenue, pct) == (revenue \div RATE_DEN) * pct

\* line 478: revenue * pct.  The cost rates are whole multiples of COST_STEP
\* per cent and every revenue cell is a whole multiple of PCT / COST_STEP
\* units (the yearly prices are even, the expansion rates whole tens), so
\* both divisions are exact.
CostOf(revenue, pct) == (revenue \div (PCT \div COST_STEP)) * (pct \div COST_STEP)

\* lines 429-489: revenue, cost and profit cells of the month
MoneyCells(row, m) ==
    LET pro == SubscriptionRevenue(row.ProStart, row.ProEnd,
                                   12 * monthly_prices("Pro", m),
                                   monthly_expansion_rate("Pro", m))
        team == SubscriptionRevenue(row.TeamUsersStart, row.TeamUsersEnd,
                                    12 * monthly_prices("Team", m),
                                    monthly_expansion_rate("Team", m))
        ent == SubscriptionRevenue(row.EntUsersStart, row.EntUsersEnd,
                                   annual_prices(m),
                                   monthly_expansion_rate("Enterprise", m))
        once == OneTimeRevenue(row.ConvertedToLifetime,
                               one_time_license_price(m))
        mrr == pro + team + ent
        total == mrr + once + 0
        cost == [c \in CostCats |-> CostOf(total, cost_structure_pct(c, m))]
        opex == cost["Engineering"] + cost["Product & Design"]
                + cost["Marketing & Community"] + cost["Customer Success"]
                + cost["Infrastructure"] + cost["G&A"]
    IN  [ row EXCEPT
            !.RevenuePro = pro, !.RevenueTeam = team,
            !.RevenueEnterprise = ent, !.RevenueOneTime = once,
            !.RevenueMarketplace = 0,
            !.MRR = mrr, !.TotalRevenue = total,
            !.Cost = cost, !.TotalOpEx = opex,
            !.GrossProfit = total, !.EBITDA = total - opex ]

\* the row of month m once its iteration has run to the end
FinalRow(m) ==
    LET row == StartRow(m)
        l == Locals(row, m, NewFreeUsersThisMonth(m))
    IN  MoneyCells(PopulationCells(row, m, l), m)

\* StoreRow with the Month cell also written one row too early
StoreRowOffByOne(m, row) ==
    IF m > 1
    THEN [df_monthly EXCEPT ![m] = row, ![m - 1].Month = row.Month]
    ELSE [df_monthly EXCEPT ![m] = row]

\* df_monthly.loc[m, ...] = ... : an iteration writes the cells of its own row
StoreRow(m, row) == [df_monthly EXCEPT ![m] = row]

NoLocals == [ processed |-> FALSE ]

\* ------------------------------------------------------------------------
\* The annual table (lines 494-516)
\* ------------------------------------------------------------------------
\* a ratio cell: a number num / den, or NaN
Num(n, d) == [ kind |-> "num", num |-> n, den |-> d ]
NaN == [ kind |-> "nan", num |-> 0, den |-> 1 ]
Zero == Num(0, 1)

\* pd.DataFrame(0.0, ...): every cell starts at 0.0
EmptyColumn ==
    [ aggregated |-> FALSE,
      TotalFreeUsersEndYear |-> 0, TotalPaidUsersEndYear |-> 0,
      RevenuePro |-> 0, RevenueTeam |-> 0, RevenueEnterprise |-> 0,
      RevenueOneTime |-> 0, RevenueMarketplace |-> 0, TotalRevenue |-> 0,
      MRREndYear |-> 0, MRRAvgYear12 |-> 0,
      TotalOpEx |-> 0, EBITDA |-> 0,
      GrossMargin |-> Zero, EBITDAMargin |-> Zero,
      BlendedCAC |-> Zero, CACPayback |-> Zero,
      LTV |-> Zero, LTVCACRatio |-> Zero,
      MonthlyChurnRate |-> Zero, NRR |-> Zero ]

\* ------------------------------------------------------------------------
\* The program
\* ------------------------------------------------------------------------
Init ==
    /\ cfg \in Configs \cup ScenarioConfigs
    /\ pc = "monthly"
    /\ err = "none"
    /\ m_next = 1
    /\ y_next = FirstYear
    /\ df_monthly = [m \in model_months |->
                        IF m = 1 THEN SeedRow(cfg) ELSE EmptyRow]
    /\ df_annual = [y \in Years |-> EmptyColumn]
    /\ locals = [m \in model_months |-> NoLocals]

\* one iteration of the monthly loop that runs to its end (lines 302-489)
MonthStep ==
    /\ pc = "monthly"
    /\ m_next \in model_months
    /\ ~RoundRaises(m_next)
    /\ LET m == m_next
           row == StartRow(m)
           l == Locals(row, m, NewFreeUsersThisMonth(m))
       IN  /\ df_monthly' = StoreRow(m, FinalRow(m))
           /\ locals' = [locals EXCEPT ![m] = [processed |-> TRUE] @@ l]
    /\ m_next' = m_next + 1
    /\ pc' = IF m_next = N_MONTHS THEN "annual" ELSE "monthly"
    /\ UNCHANGED <<cfg, err, y_next, df_annual>>

\* the iteration of month 1 when line 324 raises AttributeError: the row has
\* its date (lines 303-305) and nothing else
MonthCrash ==
    /\ pc = "monthly"
    /\ m_next \in model_months
    /\ RoundRaises(m_next)
    /\ df_monthly' = StoreRow(m_next, StartRow(m_next))
    /\ pc' = "crashed"
    /\ err' = "AttributeError"
    /\ UNCHANGED <<cfg, m_next, y_next, df_annual, locals>>

\* ------------------------------------------------------------------------
\* One fiscal year of the aggregation (lines 518-696)
\* ------------------------------------------------------------------------
RECURSIVE SumFn(_, _)
SumFn(f, S) ==
    IF S = {} THEN 0
    ELSE LET x == CHOOSE x \in S : TRUE IN f[x] + SumFn(f, S \ {x})

\* line 520: the months whose Year cell is `year`
MonthsOfYear(year) == { m \in model_months : df_monthly[m].Year = year }
\* .iloc[-1] / .index.max()
LastMonthOf(year) ==
    CHOOSE m \in MonthsOfYear(year) : \A k \in MonthsOfYear(year) : k <= m

\* lines 219-220, read with .get(month, 0)
marketplace_commission_rate(m) ==
    IF m \in model_months THEN Band(m, 0, 15, 18) ELSE 0
avg_marketplace_purchase_per_user_per_year(m) ==
    IF m \in model_months THEN Band(m, 0, 10, 25) ELSE 0

\* lines 545-552: mean over the year's months of the paid end populations,
\* times purchase per user, times the commission (per cent)
MarketplaceRevenue(year) ==
    LET months == MonthsOfYear(year)
        paid == [m \in months |->
                    (df_monthly[m].ProEnd + df_monthly[m].LifetimeEnd
                     + df_monthly[m].TeamUsersEnd + df_monthly[m].EntUsersEnd)
                    \div POP]
        last == LastMonthOf(year)
    IN  (SumFn(paid, months) * avg_marketplace_purchase_per_user_per_year(last)
         * marketplace_commission_rate(last) * (MONEY \div PCT))
            \div Cardinality(months)

\* lines 579-580: x / revenue if revenue > 0 else 0
Margin(x, revenue) == IF revenue > 0 THEN Num(x, revenue) ELSE Zero

\* lines 524-580: the cells written before the customer metrics
RevenueCells(col, year) ==
    LET months == MonthsOfYear(year)
        last == LastMonthOf(year)
        sum(F(_)) == SumFn([m \in months |-> F(df_monthly[m])], months)
        pro == sum(LAMBDA r : r.RevenuePro)
        team == sum(LAMBDA r : r.RevenueTeam)
        ent == sum(LAMBDA r : r.RevenueEnterprise)
        once == sum(LAMBDA r : r.RevenueOneTime)
        mp == MarketplaceRevenue(year)
        total == pro + team + ent + once + mp
        ebitda == sum(LAMBDA r : r.EBITDA)
    IN  [ col EXCEPT
            !.aggregated = TRUE,
            !.TotalFreeUsersEndYear = df_monthly[last].FreeEnd,
            !.TotalPaidUsersEndYear = df_monthly[last].TotalPaidUsersEnd,
            !.RevenuePro = pro, !.RevenueTeam = team,
            !.RevenueEnterprise = ent, !.RevenueOneTime = once,
            !.RevenueMarketplace = mp, !.TotalRevenue = total,
            !.MRREndYear = df_monthly[last].MRR,
            !.MRRAvgYear12 = sum(LAMBDA r : r.MRR),
            !.TotalOpEx = sum(LAMBDA r : r.TotalOpEx),
            !.EBITDA = ebitda,
            !.GrossMargin = Margin(sum(LAMBDA r : r.GrossProfit), total),
            !.EBITDAMargin = Margin(ebitda, total) ]

\* line 590 reads a column that cols_monthly does not have: KeyError
FreeToTeamColumn == "Converted to Team Accts (from Free)"
NewPayingRaises == FreeToTeamColumn \notin cols_monthly

\* one iteration of the annual loop.  Lines 524-580 write their cells, then
\* line 590 raises and the run ends.
YearStep ==
    /\ pc = "annual"
    /\ y_next \in Years
    /\ NewPayingRaises
    /\ df_annual' = [df_annual EXCEPT
                        ![y_next] = RevenueCells(df_annual[y_next], y_next)]
    /\ pc' = "crashed"
    /\ err' = "KeyError"
    /\ UNCHANGED <<cfg, m_next, y_next, df_monthly, locals>>

Next == MonthStep \/ MonthCrash \/ YearStep

Spec == Init /\ [][Next]_vars

\* ------------------------------------------------------------------------
\* Properties
\* ------------------------------------------------------------------------
Processed(m) == locals[m].processed
Aggregated(y) == df_annual[y].aggregated

\* C1 -- Mass conservation on the recorded table: in every processed month
\* the recorded end population of every tier equals its recorded start
\* minus the recorded churn and outbound conversions plus the recorded
\* acquisition and inbound conversions (Pro and Lifetime are taken together,
\* their outbound conversion being recorded as one column).
C1_MassConservation ==
    \A m \in model_months : Processed(m) =>
        LET r == df_monthly[m] IN
        /\ r.FreeEnd = r.FreeStart - r.FreeChurn - r.ConvertedToPro
                       - r.ConvertedToLifetime + r.NewFreeUsers
        /\ r.ProEnd + r.LifetimeEnd =
               r.ProStart + r.LifetimeStart - r.ProChurn - r.LifetimeChurn
               - r.ConvertedToTeamAccts + r.ConvertedToPro
               + r.ConvertedToLifetime
        /\ r.TeamAcctsEnd = r.TeamAcctsStart - r.TeamAcctChurn
                            - r.ConvertedToEnterpriseAccts
                            + r.ConvertedToTeamAccts
        /\ r.EntAcctsEnd = r.EntAcctsStart - r.EnterpriseAcctChurn
                           + r.ConvertedToEnterpriseAccts

\* C2 -- Rounding never feeds back: the start cells of every month after the
\* first are the unrounded end values of the month before, the new-entrant
\* volume grows from the unrounded volume of the month before, and the Team
\* account inflow is the unrounded conversion.
C2_NoRoundingFeedback ==
    \A m \in model_months : (m > 1 /\ Processed(m)) =>
        LET r == df_monthly[m]
            p == locals[m - 1]
        IN  /\ r.FreeStart = p.free_end
            /\ r.ProStart = p.pro_end
            /\ r.LifetimeStart = p.lifetime_end
            /\ r.TeamUsersStart = p.team_users_end
            /\ r.EntUsersStart = p.ent_users_end
            /\ r.TeamAcctsStart = p.team_accts_end
            /\ r.EntAcctsStart = p.ent_accts_end
            /\ locals[m].new_free_users_this_month =
                   Grow(p.new_free_users_this_month,
                        monthly_new_user_growth_rate(m - 1))
            /\ locals[m].team_accts_inflow = locals[m].converted_to_team_accts

\* C3 -- Conversion conserves mass per path: in every processed month what
\* the individual paid tiers lose to Team accounts is what Team accounts gain
\* (the other three paths move one and the same quantity: converted_to_pro,
\* converted_to_lifetime and converted_to_enterprise_accts appear with
\* opposite signs in the source and the destination of Locals).
C3_ConversionConserved ==
    \A m \in model_months : Processed(m) =>
        locals[m].pro_to_team + locals[m].lifetime_to_team
            = locals[m].team_accts_inflow

\* C4 -- Non-negativity: with every rate in [0,1) and non-negative seeds and
\* prices (true of every configuration of Configs), every start and end
\* population and every revenue cell of every processed month is >= 0.
C4_NonNegative ==
    \A m \in model_months : Processed(m) =>
        LET r == df_monthly[m] IN
        /\ r.FreeStart >= 0 /\ r.FreeEnd >= 0
        /\ r.ProStart >= 0 /\ r.ProEnd >= 0
        /\ r.LifetimeStart >= 0 /\ r.LifetimeEnd >= 0
        /\ r.TeamUsersStart >= 0 /\ r.TeamUsersEnd >= 0
        /\ r.EntUsersStart >= 0 /\ r.EntUsersEnd >= 0
        /\ r.TeamAcctsStart >= 0 /\ r.TeamAcctsEnd >= 0
        /\ r.EntAcctsStart >= 0 /\ r.EntAcctsEnd >= 0
        /\ r.RevenuePro >= 0 /\ r.RevenueTeam >= 0
        /\ r.RevenueEnterprise >= 0 /\ r.RevenueOneTime >= 0
        /\ r.MRR >= 0 /\ r.TotalRevenue >= 0

\* C5 -- Sentinel on zero revenue: an aggregated year whose total revenue is
\* 0 reports NaN as Gross Margin, EBITDA Margin and CAC Payback, and the
\* aggregation does not raise.
C5_ZeroRevenueSentinel ==
    \A y \in Years : (Aggregated(y) /\ df_annual[y].TotalRevenue = 0) =>
        /\ df_annual[y].GrossMargin = NaN
        /\ df_annual[y].EBITDAMargin = NaN
        /\ df_annual[y].CACPayback = NaN
        /\ err = "none"

\* C6 -- LTV:CAC of an aggregated year is NaN whenever its Blended CAC is
\* zero or NaN, or its LTV is NaN.
C6_LtvCacSentinel ==
    \A y \in Years :
        (/\ Aggregated(y)
         /\ \/ df_annual[y].BlendedCAC = NaN
            \/ df_annual[y].BlendedCAC.num = 0
            \/ df_annual[y].LTV = NaN)
        => df_annual[y].LTVCACRatio = NaN

\* C7 -- Single-pass completion: months are processed in increasing order,
\* each once, then the years, and no month and no year ends the run with an
\* exception.
C7_NoFatalError ==
    /\ err = "none"
    /\ pc # "crashed"
    /\ \A m \in model_months : Processed(m) <=> m < m_next
    /\ \A y \in Years : Aggregated(y) <=> y < y_next

\* C8 -- Sequential hand-off: for every processed month after the first, each
\* of the seven start cells equals the finalized (recorded) end cell of the
\* month before.
C8_Handoff ==
    \A m \in model_months : (m > 1 /\ Processed(m)) =>
        LET r == df_monthly[m]
            p == df_monthly[m - 1]
        IN  /\ r.FreeStart = p.FreeEnd
            /\ r.ProStart = p.ProEnd
            /\ r.LifetimeStart = p.LifetimeEnd
            /\ r.TeamUsersStart = p.TeamUsersEnd
            /\ r.EntUsersStart = p.EntUsersEnd
            /\ r.TeamAcctsStart = p.TeamAcctsEnd
            /\ r.EntAcctsStart = p.EntAcctsEnd

\* a month after the first has been processed from a predecessor whose
\* recorded Pro, Team-account and Free ends are positive and whose recorded
\* Free end is not the unrounded one
C8_Witness ==
    \E m \in model_months :
        /\ m > 1 /\ Processed(m)
        /\ df_monthly[m - 1].ProEnd > 0
        /\ df_monthly[m - 1].TeamAcctsEnd > 0
        /\ df_monthly[m - 1].FreeEnd > 0
        /\ df_monthly[m - 1].FreeEnd # locals[m - 1].free_end

\* C9 -- Finalized rows are immutable: no step changes a cell of the row of
\* a processed month, nor a cell of the column of an aggregated year.
C9_Immutable ==
    [][ /\ \A m \in model_months :
              Processed(m) => df_monthly'[m] = df_monthly[m]
        /\ \A y \in Years :
              Aggregated(y) => df_annual'[y] = df_annual[y] ]_vars

\* every month has been processed and the aggregation of a year has run on
\* top of the finished monthly table
C9_Witness ==
    /\ \A m \in model_months : Processed(m)
    /\ Aggregated(FirstYear)
    /\ df_annual[FirstYear].TotalRevenue > 0

\* C10 -- Account/user duality: at the start and at the end of every
\* processed month the recorded Team (Enterprise) users equal the recorded
\* Team (Enterprise) accounts times the month's average users per account.
C10_Duality ==
    \A m \in model_months : Processed(m) =>
        LET r == df_monthly[m] IN
        /\ r.TeamUsersStart = r.TeamAcctsStart * avg_users_per_team_account(m)
        /\ r.TeamUsersEnd = r.TeamAcctsEnd * avg_users_per_team_account(m)
        /\ r.EntUsersStart =
               r.EntAcctsStart * avg_users_per_enterprise_account(m)
        /\ r.EntUsersEnd =
               r.EntAcctsEnd * avg_users_per_enterprise_account(m)

\* ------------------------------------------------------------------------
\* Users over all tiers
\* ------------------------------------------------------------------------
\* users at the start of month m, over the five tiers
TotalUsersStart(m) ==
    LET r == df_monthly[m]
    IN  r.FreeStart + r.ProStart + r.LifetimeStart + r.TeamUsersStart
        + r.EntUsersStart
\* users at the end of month m as lines 345-399 compute them (before rounding)
TotalUsersEnd(m) ==
    LET l == locals[m]
    IN  l.free_end + l.pro_end + l.lifetime_end + l.team_users_end
        + l.ent_users_end
\* users churned in month m, over the five tiers (lines 328, 348-351)
TotalUsersChurned(m) ==
    LET l == locals[m]
    IN  l.free_churn_this_month + l.pro_churn + l.lifetime_churn
        + l.team_churn + l.enterprise_churn

\* C11 -- Conversion creates no users: in every processed month the users
\* summed over the five tiers change by the new entrants minus the churned
\* users and by nothing else.
C11_UsersConserved ==
    \A m \in model_months : Processed(m) =>
        TotalUsersEnd(m) = TotalUsersStart(m)
                           + locals[m].new_free_users_this_month
                           - TotalUsersChurned(m)

\* C12 -- Monotonic decay absent growth: in every processed month a tier that
\* receives no acquisition and no inbound conversion ends the month with at
\* most the population it started with.
C12_MonotonicDecay ==
    \A m \in model_months : Processed(m) =>
        LET r == df_monthly[m]
            l == locals[m]
        IN  /\ l.new_free_users_this_month = 0 => r.FreeEnd <= r.FreeStart
            /\ l.converted_to_pro = 0 => r.ProEnd <= r.ProStart
            /\ l.converted_to_lifetime = 0 =>
                   r.LifetimeEnd <= r.LifetimeStart
            /\ l.team_accts_inflow = 0 =>
                   /\ r.TeamAcctsEnd <= r.TeamAcctsStart
                   /\ r.TeamUsersEnd <= r.TeamUsersStart
            /\ l.converted_to_enterprise_accts = 0 =>
                   /\ r.EntAcctsEnd <= r.EntAcctsStart
                   /\ r.EntUsersEnd <= r.EntUsersStart

\* ------------------------------------------------------------------------
\* Recurring revenue
\* ------------------------------------------------------------------------
\* C13 -- Recurring revenue: in every processed month the subscription
\* revenue of Pro, Team and Enterprise is the month's surviving (end)
\* population of the tier times its price times (1 + its expansion rate),
\* the Enterprise annual price taken per month (SubscriptionRevenue of twice
\* the end population is end * price * (1 + expansion)).
C13_RevenueOfSurvivors ==
    \A m \in model_months : Processed(m) =>
        LET r == df_monthly[m] IN
        /\ r.RevenuePro =
               SubscriptionRevenue(r.ProEnd, r.ProEnd,
                                   12 * monthly_prices("Pro", m),
                                   monthly_expansion_rate("Pro", m))
        /\ r.RevenueTeam =
               SubscriptionRevenue(r.TeamUsersEnd, r.TeamUsersEnd,
                                   12 * monthly_prices("Team", m),
                                   monthly_expansion_rate("Team", m))
        /\ r.RevenueEnterprise =
               SubscriptionRevenue(r.EntUsersEnd, r.EntUsersEnd,
                                   annual_prices(m),
                                   monthly_expansion_rate("Enterprise", m))

\* C14 -- Steady intake: with Pro the only paying tier, no churn, no
\* expansion, no conversion out, price 100 a month and 10 customers
\* entering Pro in each of three months, month 3 has revenue 3000 and ends
\* with 30 Pro users.
C14_SteadyIntake ==
    (cfg = SteadyIntakeConfig /\ Processed(3)) =>
        /\ df_monthly[3].ProEnd = 30 * POP
        /\ df_monthly[3].MRR = 3000 * MONEY

\* C15 -- Pure churn: one tier of 100 users with churn 0.10 a month, no
\* acquisition, no conversion and no expansion ends month 1 with 90 users
\* and month 2 with 81.
C15_PureChurn ==
    cfg = PureChurnConfig =>
        /\ Processed(1) => df_monthly[1].ProEnd = 90 * POP
        /\ Processed(2) => df_monthly[2].ProEnd = 81 * POP

\* the run of the scenario has finished its second month, having recorded
\* the churn of both months
C15_Witness ==
    /\ cfg = PureChurnConfig
    /\ Processed(2)
    /\ df_monthly[1].ProStart = 100 * POP
    /\ df_monthly[1].ProChurn = 10 * POP
    /\ df_monthly[2].ProChurn = 9 * POP

\* ------------------------------------------------------------------------
\* Customer metrics of a fiscal year
\* ------------------------------------------------------------------------
\* line 590, the columns that exist: users converted out of Free in the year
FirstTimeConversions(year) ==
    LET months == MonthsOfYear(year)
    IN  SumFn([m \in months |-> df_monthly[m].ConvertedToPro], months)
        + SumFn([m \in months |-> df_monthly[m].ConvertedToLifetime], months)
\* line 592
total_sm_opex_year(year) ==
    LET months == MonthsOfYear(year)
    IN  SumFn([m \in months |->
                  df_monthly[m].Cost["Marketing & Community"]], months)

\* C17 -- Blended CAC of an aggregated year is its Marketing & Community
\* spend divided by the users converted out of Free in the year (to Pro and
\* to Lifetime; upgrades between paid tiers are not counted), and NaN when
\* that count is zero.
C17_BlendedCAC ==
    \A y \in Years : Aggregated(y) =>
        LET new == FirstTimeConversions(y) \div POP
            cac == df_annual[y].BlendedCAC
        IN  IF new > 0
            THEN /\ cac.kind = "num"
                 /\ cac.num * new = total_sm_opex_year(y) * cac.den
            ELSE cac = NaN

\* C18 -- Configuration validation: when the configuration is inconsistent
\* (a churn or conversion rate outside [0,1), or a month without an entry in
\* the growth-rate table) the run is refused before the first month: no row
\* of the monthly table is ever computed, and no month is computed with a
\* default in place of a missing growth rate.
C18_ValidatedFirst ==
    LET in_range(r) == r >= 0 /\ r < RATE_DEN
        valid ==
            /\ \A t \in Tiers : in_range(cfg.rates.churn[t])
            /\ in_range(cfg.rates.indiv_to_team)
            /\ in_range(cfg.rates.team_to_ent)
            /\ in_range(cfg.free_to_pro)
            /\ in_range(cfg.free_to_lifetime)
            /\ \A m \in model_months : m \in 1..cfg.growth_last
    IN  /\ ~valid => \A m \in model_months : ~Processed(m)
        /\ \A m \in model_months :
              (m > 1 /\ Processed(m)) => (m - 1) \in 1..cfg.growth_last

\* ------------------------------------------------------------------------
\* The transitions of the tiers, one at a time
\* ------------------------------------------------------------------------
\* lines 345 and 382-408: the end cells of one tier, written into the row
TierTransition(tier, row, m, new_free) ==
    LET l == Locals(row, m, new_free)
    IN  CASE tier = "Free" -> [row EXCEPT !.FreeEnd = Round0(l.free_end)]
          [] tier = "Pro" -> [row EXCEPT !.ProEnd = Round0(l.pro_end)]
          [] tier = "Lifetime" ->
                [row EXCEPT !.LifetimeEnd = Round0(l.lifetime_end)]
          [] tier = "Team" ->
                [row EXCEPT !.TeamAcctsEnd = Round2(l.team_accts_end),
                            !.TeamUsersEnd = Round0(l.team_users_end)]
          [] tier = "Enterprise" ->
                [row EXCEPT !.EntAcctsEnd = Round2(l.ent_accts_end),
                            !.EntUsersEnd = Round0(l.ent_users_end)]

\* the transitions of the tiers applied one after the other, each to the row
\* the ones before have left
RECURSIVE InOrder(_, _, _, _)
InOrder(order, row, m, new_free) ==
    IF order = <<>> THEN row
    ELSE InOrder(Tail(order),
                 TierTransition(Head(order), row, m, new_free), m, new_free)

\* the orders in which the five tiers can be taken
TierOrders ==
    { o \in [1..Cardinality(Tiers) -> Tiers] :
        \A t \in Tiers : \E i \in DOMAIN o : o[i] = t }

\* the end cells of a row
EndCells(row) ==
    << row.FreeEnd, row.ProEnd, row.LifetimeEnd, row.TeamAcctsEnd,
       row.TeamUsersEnd, row.EntAcctsEnd, row.EntUsersEnd >>

\* the row of month m with its start cells and no end cell yet
BeforeTransitions(m) ==
    [ df_monthly[m] EXCEPT
        !.FreeEnd = 0, !.ProEnd = 0, !.LifetimeEnd = 0, !.TeamAcctsEnd = 0,
        !.TeamUsersEnd = 0, !.EntAcctsEnd = 0, !.EntUsersEnd = 0 ]

\* C19 -- Tier independence within a month: the end populations of the month
\* just processed are what the five tier transitions give when they are
\* applied in any order to the month's start cells; no transition reads an
\* end cell that another one has written.
C19_OrderIndependent ==
    \A m \in model_months :
        (Processed(m) /\ m + 1 = m_next) =>
            \A o \in TierOrders :
                EndCells(InOrder(o, BeforeTransitions(m), m,
                                 locals[m].new_free_users_this_month))
                    = EndCells(df_monthly[m])

\* a month has just been processed in which users moved along every
\* conversion path and every tier was populated
C19_Witness ==
    \E m \in model_months :
        /\ Processed(m) /\ m + 1 = m_next
        /\ locals[m].converted_to_pro > 0
        /\ locals[m].converted_to_lifetime > 0
        /\ locals[m].converted_to_team_accts > 0
        /\ locals[m].converted_to_enterprise_accts > 0
        /\ df_monthly[m].FreeEnd > 0 /\ df_monthly[m].EntUsersEnd > 0

\* ------------------------------------------------------------------------
\* Weighted churn, expansion and NRR (lines 621-657 and 682-696)
\* ------------------------------------------------------------------------
\* exact fractions: lowest terms, sum
RECURSIVE GCD(_, _)
GCD(a, b) == IF b = 0 THEN a ELSE GCD(b, a % b)
Lowest(n, d) == LET g == GCD(n, d) IN Num(n \div g, d \div g)
RatAdd(a, b) == Lowest(a.num * b.den + b.num * a.den, a.den * b.den)

\* lines 629-635: the paid users at the start of month m, by tier
active_users_start_m(m) ==
    [ Pro |-> df_monthly[m].ProStart \div POP,
      Team |-> df_monthly[m].TeamUsersStart \div POP,
      Enterprise |-> df_monthly[m].EntUsersStart \div POP,
      Lifetime |-> df_monthly[m].LifetimeStart \div POP ]
total_active_paid_start_m(m) ==
    LET u == active_users_start_m(m)
    IN  u.Pro + u.Team + u.Enterprise + u.Lifetime

\* the weighted sum divided by the number of tiers instead of the number of
\* users
WeightedRateByTierCount(m, rate) ==
    LET u == active_users_start_m(m)
    IN  IF total_active_paid_start_m(m) > 0
        THEN Lowest(u.Pro * rate.Pro + u.Team * rate.Team
                    + u.Enterprise * rate.Enterprise
                    + u.Lifetime * rate.Lifetime, Cardinality(PaidTiers))
        ELSE NaN

\* lines 637-646: a rate (per mille) averaged over the paid tiers with the
\* start users as weights; NaN without paid users
WeightedRate(m, rate) ==
    LET u == active_users_start_m(m)
        total == total_active_paid_start_m(m)
    IN  IF total > 0
        THEN Lowest(u.Pro * rate.Pro + u.Team * rate.Team
                    + u.Enterprise * rate.Enterprise
                    + u.Lifetime * rate.Lifetime, total)
        ELSE NaN
\* line 638
weighted_churn_m(m) ==
    WeightedRate(m, [t \in PaidTiers |-> monthly_churn_rate(t, m)])
\* line 639 (the expansion rates are per cent)
weighted_expansion_m(m) ==
    WeightedRate(m, [t \in PaidTiers |->
                        monthly_expansion_rate(t, m) * (RATE_DEN \div PCT)])
\* line 641: 1 - weighted_churn_m + weighted_expansion_m, NaN without paid
\* users (line 646)
weighted_nrr_m(m) ==
    LET churn == weighted_churn_m(m)
        expansion == weighted_expansion_m(m)
    IN  IF total_active_paid_start_m(m) > 0
        THEN RatAdd(RatAdd(Num(RATE_DEN, 1), Num(0 - churn.num, churn.den)),
                    expansion)
        ELSE NaN

\* lines 653-655: np.nanmean, the mean of the values that are not NaN, NaN
\* when there is none
RECURSIVE RatSum(_, _)
RatSum(f, S) ==
    IF S = {} THEN Zero
    ELSE LET x == CHOOSE x \in S : TRUE IN RatAdd(f[x], RatSum(f, S \ {x}))
NanMean(f, S) ==
    LET valued == { x \in S : f[x] # NaN }
        total == RatSum(f, valued)
    IN  IF valued = {} THEN NaN
        ELSE Lowest(total.num, total.den * Cardinality(valued))

\* The inputs of the aggregation of one year: the churn, expansion and
\* price tables of cfg (MetricConfigs; its other fields are not read) and a
\* monthly table whose paid start populations are whole users, `scale`
\* times one profile in the first half of each year and another in the
\* second half; every month ends with the populations the next one starts
\* with, and its revenue, cost and profit cells are those of lines 429-489.
MaxScale == 2
StartProfiles ==
    { [Pro |-> 0, Team |-> 0, Enterprise |-> 0, Lifetime |-> 0],
      [Pro |-> 2, Team |-> 3, Enterprise |-> 0, Lifetime |-> 0],
      [Pro |-> 1, Team |-> 1, Enterprise |-> 0, Lifetime |-> 0],
      [Pro |-> 2, Team |-> 3, Enterprise |-> 1, Lifetime |-> 1] }
MonthlyTableOf(first, second, scale) ==
    [ m \in model_months |->
        LET ProfileOf(k) == IF (k - 1) % 12 < 6 THEN first ELSE second
            p == ProfileOf(m)
            q == IF m < N_MONTHS THEN ProfileOf(m + 1) ELSE p
            populations ==
                [ EmptyRow EXCEPT
                    !.Year = model_years(m),
                    !.Month = ((m - 1) % 12) + 1,
                    !.ProStart = scale * p.Pro * POP,
                    !.TeamUsersStart = scale * p.Team * POP,
                    !.EntUsersStart = scale * p.Enterprise * POP,
                    !.LifetimeStart = scale * p.Lifetime * POP,
                    !.ProEnd = scale * q.Pro * POP,
                    !.TeamUsersEnd = scale * q.Team * POP,
                    !.EntUsersEnd = scale * q.Enterprise * POP,
                    !.LifetimeEnd = scale * q.Lifetime * POP,
                    !.TotalPaidUsersEnd =
                        scale * (q.Pro + q.Team + q.Enterprise + q.Lifetime)
                        * POP ]
        IN  MoneyCells(populations, m) ]

\* churn 0.05 and expansion 0.02 for Team, churn 0.10 and no expansion for Pro
TwoTierRates ==
    [churn |-> [Free |-> 200, Pro |-> 100, Lifetime |-> 10, Team |-> 50,
                Enterprise |-> 15],
     indiv_to_team |-> 0, team_to_ent |-> 0]
TwoTierExpansion ==
    [Pro |-> <<0, 0, 0>>, Team |-> <<2, 2, 2>>,
     Enterprise |-> <<0, 0, 0>>, Lifetime |-> <<0, 0, 0>>]
MetricConfigs ==
    { [ PureChurnConfig EXCEPT !.rates = re[1], !.expansion = re[2],
                               !.prices = pr ] :
        re \in { <<TwoTierRates, TwoTierExpansion>>,
                 <<ShippedLikeRates, ShippedLikeExpansion>> },
        pr \in { [Pro |-> 30, Team |-> <<30, 30, 30>>],
                 [Pro |-> 40, Team |-> <<60, 60, 60>>] } }

\* products and quotients of ratio cells in lowest terms (the common
\* factors are taken out before multiplying)
RatMul(a, b) ==
    LET g == GCD(a.num, b.den)
        h == GCD(b.num, a.den)
    IN  Num((a.num \div g) * (b.num \div h), (a.den \div h) * (b.den \div g))
RatDiv(a, b) == RatMul(a, Num(b.den, b.num))

\* line 546: the mean over the year's months of the paid users at the end of
\* the month
avg_paid_users_year(year) ==
    LET months == MonthsOfYear(year)
        paid == [m \in months |->
                    (df_monthly[m].ProEnd + df_monthly[m].LifetimeEnd
                     + df_monthly[m].TeamUsersEnd + df_monthly[m].EntUsersEnd)
                    \div POP]
    IN  Lowest(SumFn(paid, months), Cardinality(months))

\* line 569, in euros: the mean of the year's monthly MRR cells
mrr_avg_year(year) ==
    Lowest(df_annual[year].MRRAvgYear12,
           Cardinality(MonthsOfYear(year)) * MONEY)

\* the values line 593 can store in 'Blended CAC': NaN or an amount in euros
BlendedCACChoices == { NaN, Zero, Num(12, 1) }

\* lines 597-607: CAC / (monthly ARPU * gross margin), in months
cac_payback(cac, year) ==
    LET mrr == mrr_avg_year(year)
        avg_recurring_revenue_month_year ==
            IF mrr.num > 0 THEN Lowest(mrr.num, mrr.den * 12) ELSE Zero
        gross_margin_pct_year ==
            Lowest(df_annual[year].GrossMargin.num,
                   df_annual[year].GrossMargin.den)
        paid == avg_paid_users_year(year)
        arpu_monthly_avg_year ==
            IF paid.num > 0
            THEN RatDiv(avg_recurring_revenue_month_year, paid)
            ELSE Zero
        monthly_gross_profit_per_paid_user ==
            RatMul(arpu_monthly_avg_year, gross_margin_pct_year)
    IN  IF monthly_gross_profit_per_paid_user.num > 0
        THEN IF cac = NaN THEN NaN
             ELSE RatDiv(cac, monthly_gross_profit_per_paid_user)
        ELSE NaN

\* the aggregation of one fiscal year, about to run; it reads the rate
\* tables of cfg and the cells of df_monthly
MetricsInit ==
    /\ cfg \in MetricConfigs
    /\ pc = "revenue"
    /\ err = "none"
    /\ y_next \in Years
    /\ m_next = 12 * (y_next - FirstYear) + 1
    /\ \E first \in StartProfiles, second \in StartProfiles,
          scale \in 1..MaxScale :
          df_monthly = MonthlyTableOf(first, second, scale)
    /\ df_annual = [y \in Years |-> EmptyColumn]
    /\ locals = [m \in model_months |-> NoLocals]

\* lines 520-580: the users, revenue, cost and margin cells of the year
RevenueYearStep ==
    /\ pc = "revenue"
    /\ df_annual' = [df_annual EXCEPT
                        ![y_next] = RevenueCells(df_annual[y_next], y_next)]
    /\ pc' = "payback"
    /\ UNCHANGED <<cfg, err, m_next, y_next, df_monthly, locals>>

\* lines 595-607: the CAC payback of the year.  Line 593 has stored the
\* Blended CAC; the statement that computes it cannot be evaluated (line 590
\* raises), so its value is an input here.
CACPaybackStep ==
    /\ pc = "payback"
    /\ \E cac \in BlendedCACChoices :
           df_annual' = [df_annual EXCEPT
               ![y_next].BlendedCAC = cac,
               ![y_next].CACPayback = cac_payback(cac, y_next)]
    /\ pc' = "weighting"
    /\ UNCHANGED <<cfg, err, m_next, y_next, df_monthly, locals>>

\* lines 628-651: one iteration of the loop over the months of the year
WeightedMonthStep ==
    /\ pc = "weighting"
    /\ m_next \in MonthsOfYear(y_next)
    /\ locals' = [locals EXCEPT ![m_next] =
                     [ processed |-> TRUE,
                       weighted_churn_m |-> weighted_churn_m(m_next),
                       weighted_expansion_m |-> weighted_expansion_m(m_next),
                       weighted_nrr_m |-> weighted_nrr_m(m_next) ]]
    /\ m_next' = m_next + 1
    /\ UNCHANGED <<cfg, pc, err, y_next, df_monthly, df_annual>>

\* lines 653-657 and 682-696: the means of the year and the two cells
WeightedYearStep ==
    /\ pc = "weighting"
    /\ m_next \notin MonthsOfYear(y_next)
    /\ LET months == MonthsOfYear(y_next)
           avg_weighted_monthly_churn_year ==
               NanMean([m \in months |-> locals[m].weighted_churn_m], months)
           avg_weighted_monthly_nrr_year ==
               NanMean([m \in months |-> locals[m].weighted_nrr_m], months)
       IN  df_annual' = [df_annual EXCEPT
               ![y_next].MonthlyChurnRate = avg_weighted_monthly_churn_year,
               ![y_next].NRR = IF y_next > FirstYear
                               THEN avg_weighted_monthly_nrr_year
                               ELSE NaN]
    /\ pc' = "done"
    /\ UNCHANGED <<cfg, err, m_next, y_next, df_monthly, locals>>

MetricsNext ==
    RevenueYearStep \/ CACPaybackStep \/ WeightedMonthStep \/ WeightedYearStep

MetricsSpec == MetricsInit /\ [][MetricsNext]_vars

\* recurring revenue of the customers present at the start of month m, for
\* the two tiers of the scenario: users * price
PriorRevenue(tier, m) == active_users_start_m(m)[tier] * monthly_prices(tier, m)

C20_ChurnSentinel ==
    \A y \in Years :
        (/\ Aggregated(y)
         /\ \A m \in MonthsOfYear(y) : total_active_paid_start_m(m) = 0)
        => df_annual[y].MonthlyChurnRate = NaN

\* C21 -- NRR of the first year: the NRR cell of an aggregated year is NaN
\* when the year is the first one, and a number when it is a later year in
\* one of whose months paid users were present at the start.
C21_FirstYearNRR ==
    \A y \in Years : Aggregated(y) =>
        IF y = FirstYear
        THEN df_annual[y].NRR = NaN
        ELSE (\E m \in MonthsOfYear(y) : total_active_paid_start_m(m) > 0)
                 => df_annual[y].NRR.kind = "num"

\* C23 -- Churn and conversion are taken from the same start-of-month base:
\* in every processed month each tier's churn is its start population times
\* its churn rate and each conversion is the start population of its source
\* times the conversion rate, so that neither depends on the other's rate.
C23_SameStartBase ==
    \A m \in model_months : Processed(m) =>
        LET r == df_monthly[m]
            l == locals[m]
            Of(start, rate) == (start \div RATE_DEN) * rate
        IN  /\ l.free_churn_this_month = Of(r.FreeStart, cfg.rates.churn["Free"])
            /\ l.converted_to_pro = Of(r.FreeStart, cfg.free_to_pro)
            /\ l.converted_to_lifetime = Of(r.FreeStart, cfg.free_to_lifetime)
            /\ l.pro_churn = Of(r.ProStart, cfg.rates.churn["Pro"])
            /\ l.lifetime_churn
                   = Of(r.LifetimeStart, cfg.rates.churn["Lifetime"])
            /\ l.team_acct_churn = Of(r.TeamAcctsStart, cfg.rates.churn["Team"])
            /\ l.enterprise_acct_churn
                   = Of(r.EntAcctsStart, cfg.rates.churn["Enterprise"])
            /\ l.converted_to_team_accts
                   = Of(r.ProStart + r.LifetimeStart, cfg.rates.indiv_to_team)
            /\ l.converted_to_enterprise_accts
                   = Of(r.TeamAcctsStart, cfg.rates.team_to_ent)

\* a month after the first in which Free users and Pro users both churned
\* and both converted
C23_Witness ==
    \E m \in model_months :
        /\ m > 1
        /\ Processed(m)
        /\ locals[m].free_churn_this_month > 0
        /\ locals[m].converted_to_pro > 0
        /\ locals[m].pro_churn > 0
        /\ locals[m].converted_to_team_accts > 0
        /\ locals[m].converted_to_enterprise_accts > 0

\* C24 -- Profit identities of a month: every cost category is the month's
\* total revenue times the category's percentage, Total OpEx is the sum of
\* the categories, Gross Profit equals Total Revenue and EBITDA is Gross
\* Profit minus Total OpEx; a month without revenue has no cost and an
\* EBITDA of zero.
C24_ProfitIdentities ==
    \A m \in model_months : Processed(m) =>
        LET r == df_monthly[m]
            \* the revenue in units of COST_STEP per cent of itself
            step == PCT \div COST_STEP
        IN  /\ r.TotalRevenue % step = 0
            /\ \A c \in CostCats :
                   /\ cost_structure_pct(c, m) % COST_STEP = 0
                   /\ r.Cost[c] = (r.TotalRevenue \div step)
                                   * (cost_structure_pct(c, m) \div COST_STEP)
            /\ r.TotalOpEx = SumFn(r.Cost, CostCats)
            /\ r.GrossProfit = r.TotalRevenue
            /\ r.EBITDA = r.GrossProfit - r.TotalOpEx
            /\ r.TotalRevenue = 0 =>
                   /\ \A c \in CostCats : r.Cost[c] = 0
                   /\ r.TotalOpEx = 0
                   /\ r.EBITDA = 0

\* a run with a month that earned revenue and a month that earned none
C24_Witness ==
    /\ \E m \in model_months :
           Processed(m) /\ df_monthly[m].TotalRevenue > 0
                        /\ df_monthly[m].TotalOpEx > 0
    /\ \E m \in model_months :
           Processed(m) /\ df_monthly[m].TotalRevenue = 0

\* C25 -- Empty tiers: in every processed month a tier whose start
\* population is zero has zero churn and zero outbound conversion; when Pro
\* and Lifetime together start at zero the conversion to Team accounts
\* takes nothing from either, and when they start above zero the two
\* amounts taken from them add up to the converted amount.
C25_EmptyTiers ==
    \A m \in model_months : Processed(m) =>
        LET r == df_monthly[m]
            l == locals[m]
        IN  /\ r.FreeStart = 0 =>
                   /\ l.free_churn_this_month = 0
                   /\ l.converted_to_pro = 0
                   /\ l.converted_to_lifetime = 0
            /\ r.ProStart = 0 => l.pro_churn = 0 /\ l.pro_to_team = 0
            /\ r.LifetimeStart = 0 =>
                   l.lifetime_churn = 0 /\ l.lifetime_to_team = 0
            /\ r.TeamUsersStart = 0 => l.team_churn = 0
            /\ r.TeamAcctsStart = 0 =>
                   /\ l.team_acct_churn = 0
                   /\ l.converted_to_enterprise_accts = 0
            /\ r.EntUsersStart = 0 => l.enterprise_churn = 0
            /\ r.EntAcctsStart = 0 => l.enterprise_acct_churn = 0
            /\ r.ProStart + r.LifetimeStart = 0 =>
                   /\ l.converted_to_team_accts = 0
                   /\ l.pro_to_team = 0
                   /\ l.lifetime_to_team = 0
            /\ r.ProStart + r.LifetimeStart > 0 =>
                   l.pro_to_team + l.lifetime_to_team
                       = l.converted_to_team_accts

\* a run with a month in which no paid tier had anybody at the start, and a
\* later month in which Pro and Lifetime users both converted to Team
\* accounts
C25_Witness ==
    /\ Processed(1)
    /\ df_monthly[1].ProStart + df_monthly[1].LifetimeStart = 0
    /\ df_monthly[1].TeamAcctsStart = 0
    /\ df_monthly[1].EntAcctsStart = 0
    /\ \E m \in model_months :
           /\ Processed(m)
           /\ df_monthly[m].ProStart > 0
           /\ df_monthly[m].LifetimeStart > 0
           /\ locals[m].pro_to_team > 0
           /\ locals[m].lifetime_to_team > 0

\* C26 -- New users compound: the new Free users of month 1 are the seed,
\* those of every later month are the new Free users of the month before
\* times (1 + the growth rate of the month before); and in a month without
\* new users Free ends at its start minus churn and conversions.
C26_NewUsersCompound ==
    \A m \in model_months : Processed(m) =>
        LET l == locals[m]
        IN  /\ m = 1 =>
                   l.new_free_users_this_month
                       = cfg.new_free_users_month_1 * POP
            /\ m > 1 =>
                   l.new_free_users_this_month
                       = Grow(locals[m - 1].new_free_users_this_month,
                              monthly_new_user_growth_rate(m - 1))
            /\ l.new_free_users_this_month = 0 =>
                   l.free_end = df_monthly[m].FreeStart
                                - l.free_churn_this_month
                                - l.converted_to_pro - l.converted_to_lifetime

\* C27 -- One-time licences: in every processed month the one-time revenue
\* is the recorded number of users converted to Lifetime that month times the
\* licence price, the recurring revenue (MRR) is the sum of the Pro, Team and
\* Enterprise revenues, none of which reads the Lifetime population, and
\* the month's total is MRR plus the one-time revenue: Lifetime users bring
\* no revenue in a month in which nobody converts to Lifetime.
C27_OneTimeLicence ==
    \A m \in model_months : Processed(m) =>
        LET r == df_monthly[m]
            \* (start + end) / 2 users at a yearly price, with expansion
            Billed(start, end, price_per_year, expansion) ==
                ((start + end) \div POP) * price_per_year * (PCT + expansion)
                    * (MONEY \div (2 * 12 * PCT))
        IN  /\ r.RevenueOneTime
                   = (r.ConvertedToLifetime \div POP)
                     * one_time_license_price(m) * MONEY
            /\ r.RevenuePro
                   = Billed(r.ProStart, r.ProEnd, 12 * monthly_prices("Pro", m),
                            monthly_expansion_rate("Pro", m))
            /\ r.RevenueTeam
                   = Billed(r.TeamUsersStart, r.TeamUsersEnd,
                            12 * monthly_prices("Team", m),
                            monthly_expansion_rate("Team", m))
            /\ r.RevenueEnterprise
                   = Billed(r.EntUsersStart, r.EntUsersEnd, annual_prices(m),
                            monthly_expansion_rate("Enterprise", m))
            /\ r.MRR = r.RevenuePro + r.RevenueTeam + r.RevenueEnterprise
            /\ r.TotalRevenue = r.MRR + r.RevenueOneTime
            /\ r.ConvertedToLifetime = 0 => r.TotalRevenue = r.MRR

\* a run in which users bought the licence in one month and, in a later
\* month with Lifetime users present, nobody did
C27_Witness ==
    \E m1, m2 \in model_months :
        /\ m1 < m2
        /\ Processed(m2)
        /\ df_monthly[m1].ConvertedToLifetime > 0
        /\ df_monthly[m1].RevenueOneTime > 0
        /\ df_monthly[m2].ConvertedToLifetime = 0
        /\ df_monthly[m2].LifetimeStart > 0
        /\ df_monthly[m2].LifetimeEnd > 0
        /\ df_monthly[m2].RevenueOneTime = 0

\* C28 -- Expansion compounds: when a tier without churn or conversion keeps
\* the same users from one month to the next, at the same price and the same
\* positive expansion rate, its revenue of the second month is strictly
\* higher than that of the first.
C28_ExpansionCompounds ==
    \A m \in model_months :
        (/\ m < N_MONTHS
         /\ Processed(m) /\ Processed(m + 1)
         /\ cfg.rates = NoRates
         /\ df_monthly[m].TeamUsersStart > 0
         /\ df_monthly[m].TeamUsersEnd = df_monthly[m].TeamUsersStart
         /\ df_monthly[m + 1].TeamUsersStart = df_monthly[m].TeamUsersStart
         /\ df_monthly[m + 1].TeamUsersEnd = df_monthly[m].TeamUsersStart
         /\ monthly_prices("Team", m + 1) = monthly_prices("Team", m)
         /\ monthly_expansion_rate("Team", m) > 0
         /\ monthly_expansion_rate("Team", m + 1)
                = monthly_expansion_rate("Team", m))
        => df_monthly[m + 1].RevenueTeam > df_monthly[m].RevenueTeam

====
